---------------------------- MODULE Spec2Model ----------------------------
(***************************************************************************)
(* Multi-vendor e-commerce API (src/main.py): the document store with its  *)
(* three collections, and the request handlers create_vendor, list_vendors,*)
(* create_product, list_products, get_product, create_order, list_orders.  *)
(*                                                                         *)
(* A handler that makes one store call is one action.  create_order makes  *)
(* one store call per order line and one insert; requests are served       *)
(* concurrently and no lock or transaction is held between two store       *)
(* calls, so create_order is one action per store call, and the steps of   *)
(* two requests interleave.                                                *)
(*                                                                         *)
(* Units.  A price is a float in the code; here it is an integer number of *)
(* eighths (0.125), which floats represent and add exactly.  A rounded     *)
(* total (round(total, 2)) is an integer number of cents.                  *)
(* An identifier string is a sequence of one-character strings; an         *)
(* ObjectId is the number its 24 hex digits denote.                        *)
(* An Optional value is <<>> (None) or <<v>>.                              *)
(***************************************************************************)
EXTENDS Integers, Sequences, FiniteSets, TLC

VARIABLES
    vendors,      \* collection "vendor": documents in insertion order
    products,     \* collection "catalogproduct"
    orders,       \* collection "order"
    seq,          \* number of documents the store has inserted so far
    req           \* per client: the request it has in flight and its frame

store == <<vendors, products, orders, seq>>
vars == <<vendors, products, orders, seq, req>>

-----------------------------------------------------------------------------
(* Bounds of the model. *)

\* the number of documents the store may come to hold
MaxDocs == 4
\* the first ObjectId the store hands out is IdBase + 1 (hex a1 for 160)
IdBase == 160
\* the largest order collection whose listing is checked (SpecList)
MaxListOrders == 52

(* Program constants. *)

\* bson.ObjectId accepts a str of exactly 24 hex digits
IdLen == 24
\* .limit(50) of list_orders, .limit(100) of list_products
OrderListLimit == 50
ProductListLimit == 100

Clients == {"c1", "c2"}

-----------------------------------------------------------------------------
(* Identifiers: bson.ObjectId(str) and str(ObjectId). *)

LowerHex == <<"0","1","2","3","4","5","6","7","8","9","a","b","c","d","e","f">>
UpperHex == <<"0","1","2","3","4","5","6","7","8","9","A","B","C","D","E","F">>

\* the value of a hex digit of either case, -1 for any other character
HexVal(c) ==
    IF \E k \in 1..16 : LowerHex[k] = c
    THEN (CHOOSE k \in 1..16 : LowerHex[k] = c) - 1
    ELSE IF \E k \in 1..16 : UpperHex[k] = c
         THEN (CHOOSE k \in 1..16 : UpperHex[k] = c) - 1
         ELSE -1

RECURSIVE HexNumber(_)
HexNumber(s) ==
    IF s = <<>> THEN 0
    ELSE 16 * HexNumber(SubSeq(s, 1, Len(s) - 1)) + HexVal(s[Len(s)])

\* (mutant) the length alone is checked
ValidIdLengthOnly(s) == Len(s) = IdLen

ValidId(s) == Len(s) = IdLen /\ \A k \in 1..Len(s) : HexVal(s[k]) >= 0

\* oid(id_str): ok = FALSE is the HTTPException(400, "Invalid ID format")
oid(id_str) ==
    IF ValidId(id_str)
    THEN [ok |-> TRUE, id |-> HexNumber(id_str)]
    ELSE [ok |-> FALSE, id |-> 0]

\* str(ObjectId): 24 lower-case hex digits
RECURSIVE HexStr(_, _)
HexStr(n, len) ==
    IF len = 0 THEN <<>>
    ELSE Append(HexStr(n \div 16, len - 1), LowerHex[(n % 16) + 1])

StrOfId(n) == HexStr(n, IdLen)

\* the same identifier written with upper-case hex digits
UpperOf(s) == [k \in 1..Len(s) |-> IF HexVal(s[k]) >= 0
                                   THEN UpperHex[HexVal(s[k]) + 1] ELSE s[k]]

-----------------------------------------------------------------------------
(* Money. *)

\* the integer nearest num/den, ties to the even one (den > 0)
RoundHalfEven(num, den) ==
    LET q == num \div den
        r == num - q * den
    IN  IF 2 * r < den THEN q
        ELSE IF 2 * r > den THEN q + 1
        ELSE IF q % 2 = 0 THEN q ELSE q + 1

\* round(total, 2) of a total in eighths: the number of cents
Round2(total) == RoundHalfEven(total * 100, 8)

-----------------------------------------------------------------------------
(* The document store. *)

\* db[coll].find_one({"_id": id}): <<doc>> or <<>>
find_one(coll, id) ==
    IF \E k \in 1..Len(coll) : coll[k]._id = id
    THEN <<coll[CHOOSE k \in 1..Len(coll) : coll[k]._id = id]>>
    ELSE <<>>

\* the document create_document(coll, data) inserts: the data, the
\* store-assigned identifier and the creation time
NewDocument(data) ==
    [f \in (DOMAIN data) \cup {"_id", "created_at"} |->
        IF f = "_id" THEN IdBase + seq + 1
        ELSE IF f = "created_at" THEN seq + 1
        ELSE data[f]]

\* the string create_document returns
NewDocumentId == StrOfId(IdBase + seq + 1)

\* a stored document as a response returns it: "_id" popped, "id" = str(_id)
WithId(doc) ==
    [f \in ((DOMAIN doc) \ {"_id"}) \cup {"id"} |->
        IF f = "id" THEN StrOfId(doc._id) ELSE doc[f]]

WithIds(docs) == [k \in 1..Len(docs) |-> WithId(docs[k])]

\* cursor.limit(n)
Limit(docs, n) == SubSeq(docs, 1, IF Len(docs) < n THEN Len(docs) ELSE n)

\* cursor.sort("created_at", -1)
SortByCreatedDesc(docs) ==
    SortSeq(docs, LAMBDA d1, d2 : d1.created_at > d2.created_at)

\* Python truthiness of an Optional[str] query parameter: neither None nor
\* the empty string (GivenChars: the string is a sequence of characters)
GivenStr(opt) == opt # <<>> /\ opt[1] # ""
GivenChars(opt) == opt # <<>> /\ opt[1] # <<>>

\* the letter folded to lower case (re.IGNORECASE on the letters used here)
Fold(c) ==
    IF \E k \in 11..16 : UpperHex[k] = c
    THEN LowerHex[CHOOSE k \in 11..16 : UpperHex[k] = c]
    ELSE IF c = "T" THEN "t" ELSE IF c = "M" THEN "m" ELSE c

\* {"$regex": q, "$options": "i"} for a q of plain letters: q occurs in title
RegexMatchI(q, title) ==
    \E off \in 0..(Len(title) - Len(q)) :
        \A k \in 1..Len(q) : Fold(title[off + k]) = Fold(q[k])

-----------------------------------------------------------------------------
(* Requests and responses. *)

NoResp == [status |-> 0, msg |-> "", arg |-> <<>>, body |-> <<>>]

\* a raised HTTPException(status_code, detail); arg is the interpolated text
HTTPException(status, msg, arg) ==
    [status |-> status, msg |-> msg, arg |-> arg, body |-> <<>>]

\* a returned value
Ok(body) == [status |-> 200, msg |-> "", arg |-> <<>>, body |-> body]

Idle == [op |-> "idle", pc |-> "idle", payload |-> [none |-> TRUE],
         i |-> 0, items |-> <<>>, total |-> 0,
         reads |-> 0, writes |-> 0, lookups |-> <<>>, resp |-> NoResp]

\* the frame of a request that starts
Frame(op, payload) == [Idle EXCEPT !.op = op, !.pc = "run", !.payload = payload]

\* the frame of a request that ended with response r
Done(fr, r) == [fr EXCEPT !.pc = "done", !.resp = r]

\* a response is handed to its client before any other handler step: handing
\* it over touches nothing but the request's own frame
NoneDone == \A c \in Clients : req[c].pc # "done"

CanStart(c) == NoneDone /\ req[c].pc = "idle"

\* create-order requests that may still insert
OrdersInFlight == {c \in Clients : req[c].pc \in {"loop", "insert"}}

\* the store has room for one more document, whatever the requests in flight do
Room == seq + Cardinality(OrdersInFlight) < MaxDocs

-----------------------------------------------------------------------------
(* Inputs. *)

\* the identifier of the k-th document the store inserts
NthId(k) == StrOfId(IdBase + k)

\* 24 characters, the last one no hex digit
BadHexId == [k \in 1..IdLen |-> IF k = IdLen THEN "g" ELSE "0"]
\* hex digits, one too few
ShortId == SubSeq(NthId(2), 1, IdLen - 1)

VendorInputs == {[name |-> "Acme", email |-> "acme@x"]}

ProductInputs ==
    { [vendor_id |-> NthId(1), title |-> <<"T","e","e">>, price |-> 1,
       stock |-> 1, category |-> <<"c">>],
      [vendor_id |-> UpperOf(NthId(1)), title |-> <<"M","u","g">>, price |-> 2,
       stock |-> 2, category |-> <<>>],
      [vendor_id |-> NthId(2), title |-> <<"M","u","g">>, price |-> 2,
       stock |-> 2, category |-> <<>>],
      [vendor_id |-> BadHexId, title |-> <<"T","e","e">>, price |-> 1,
       stock |-> 1, category |-> <<>>] }

ProductIdInputs == {NthId(2), UpperOf(NthId(3)), BadHexId, ShortId}

ProductQueries ==
    { [vendor_id |-> <<>>, q |-> <<>>, category |-> <<>>],
      [vendor_id |-> <<NthId(1)>>, q |-> << <<"E","e">> >>, category |-> <<>>],
      [vendor_id |-> << <<>> >>, q |-> <<>>, category |-> <<"c">>] }

Item(id, n) == [product_id |-> id, quantity |-> n]
Good == Item(NthId(2), 1)
Two == Item(NthId(2), 2)
Other == Item(UpperOf(NthId(3)), 1)
Malformed == Item(ShortId, 1)
Negative == Item(NthId(2), -1)

ItemLists ==
    { <<>>, <<Good>>, <<Two>>, <<Other>>, <<Malformed>>, <<Negative>>,
      <<Good, Good>>, <<Good, Malformed>>, <<Good, Other>>, <<Good, Two>>,
      <<Malformed, Other>>, <<Other, Malformed>>, <<Two, Malformed>>,
      <<Good, Negative>>, <<Good, Good, Good>>, <<Good, Good, Malformed>> }

EmailOf(c) == IF c = "c1" THEN "a@x" ELSE "b@x"

OrderInputs(c) ==
    {[buyer_email |-> EmailOf(c), items |-> its] : its \in ItemLists}

EmailFilters == {<<>>, <<"a@x">>, <<"b@x">>, <<"">>}

-----------------------------------------------------------------------------
(* Vendors. *)

\* POST /vendors
create_vendor(c, payload) ==
    /\ CanStart(c)
    /\ Room
    /\ vendors' = Append(vendors, NewDocument(payload))
    /\ seq' = seq + 1
    /\ req' = [req EXCEPT ![c] =
                  Done([Frame("create_vendor", payload) EXCEPT !.writes = 1],
                       Ok(<<[id |-> NewDocumentId]>>))]
    /\ UNCHANGED <<products, orders>>

\* GET /vendors
list_vendors(c) ==
    /\ CanStart(c)
    /\ req' = [req EXCEPT ![c] =
                  Done([Frame("list_vendors", [none |-> TRUE]) EXCEPT !.reads = 1],
                       Ok(WithIds(vendors)))]
    /\ UNCHANGED store

-----------------------------------------------------------------------------
(* Products. *)

\* (mutant) the vendor is not looked up
ProductCreatedUnchecked(payload) ==
    LET fr == Frame("create_product", payload)
    IN  IF ~oid(payload.vendor_id).ok
        THEN Done(fr, HTTPException(400, "Invalid ID format", <<>>))
        ELSE Done([fr EXCEPT !.writes = 1], Ok(<<[id |-> NewDocumentId]>>))

\* the frame create_product ends with, and whether it inserted
ProductCreated(payload) ==
    LET fr == Frame("create_product", payload)
        vid == oid(payload.vendor_id)
    IN  IF ~vid.ok
        THEN Done(fr, HTTPException(400, "Invalid ID format", <<>>))
        ELSE IF find_one(vendors, vid.id) = <<>>
        THEN Done([fr EXCEPT !.reads = 1],
                  HTTPException(404, "Vendor not found", <<>>))
        ELSE Done([fr EXCEPT !.reads = 1, !.writes = 1],
                  Ok(<<[id |-> NewDocumentId]>>))

\* POST /products
create_product(c, payload) ==
    /\ CanStart(c)
    /\ Room
    /\ LET fr == ProductCreated(payload)
       IN  /\ req' = [req EXCEPT ![c] = fr]
           /\ IF fr.writes = 1
              THEN /\ products' = Append(products, NewDocument(payload))
                   /\ seq' = seq + 1
              ELSE UNCHANGED <<products, seq>>
    /\ UNCHANGED <<vendors, orders>>

\* the documents of db["catalogproduct"].find(query)
ProductMatches(query, p) ==
    /\ GivenChars(query.vendor_id) => p.vendor_id = query.vendor_id[1]
    /\ GivenStr(query.category) => p.category = query.category
    /\ GivenChars(query.q) => RegexMatchI(query.q[1], p.title)

\* GET /products
list_products(c, query) ==
    /\ CanStart(c)
    /\ req' = [req EXCEPT ![c] =
                  Done([Frame("list_products", query) EXCEPT !.reads = 1],
                       Ok(WithIds(Limit(
                             SelectSeq(products, LAMBDA p : ProductMatches(query, p)),
                             ProductListLimit))))]
    /\ UNCHANGED store

\* the frame get_product ends with
ProductGot(product_id) ==
    LET fr == Frame("get_product", [product_id |-> product_id])
        pid == oid(product_id)
    IN  IF ~pid.ok
        THEN Done(fr, HTTPException(400, "Invalid ID format", <<>>))
        ELSE LET p == find_one(products, pid.id)
             IN  IF p = <<>>
                 THEN Done([fr EXCEPT !.reads = 1],
                           HTTPException(404, "Product not found", <<>>))
                 ELSE Done([fr EXCEPT !.reads = 1], Ok(<<WithId(p[1])>>))

\* GET /products/{product_id}
get_product(c, product_id) ==
    /\ CanStart(c)
    /\ req' = [req EXCEPT ![c] = ProductGot(product_id)]
    /\ UNCHANGED store

-----------------------------------------------------------------------------
(* Orders. *)

\* (mutant) the comparison is off by one
StockInsufficientOrEqual(prod, quantity) == prod.stock <= quantity

\* int(prod.get("stock", 0)) < it.quantity
StockInsufficient(prod, quantity) == prod.stock < quantity

\* (mutant) the quantity is left out
LineTotalUnit(prod, quantity) == prod.price

\* float(prod.get("price", 0)) * it.quantity
LineTotal(prod, quantity) == prod.price * quantity

\* the line appended to items
LineSnapshot(it, prod) ==
    [product_id |-> it.product_id, quantity |-> it.quantity,
     price |-> prod.price, title |-> prod.title, vendor_id |-> prod.vendor_id]

\* one iteration of the loop over payload.items: the frame after line fr.i.
\* A lookup is logged with the number of documents the store held then.
OrderLoop(fr) ==
    LET it == fr.payload.items[fr.i]
        pid == oid(it.product_id)
    IN  IF ~pid.ok
        THEN Done(fr, HTTPException(400, "Invalid ID format", <<>>))
        ELSE
        LET found == find_one(products, pid.id)
            fr1 == [fr EXCEPT !.reads = @ + 1,
                              !.lookups = Append(@, [line |-> fr.i, id |-> pid.id,
                                                     found |-> found # <<>>,
                                                     at |-> seq])]
        IN  IF found = <<>>
            THEN Done(fr1, HTTPException(404, "Product not found", it.product_id))
            ELSE IF StockInsufficient(found[1], it.quantity)
            THEN Done(fr1, HTTPException(400, "Insufficient stock for",
                                         found[1].title))
            ELSE [fr1 EXCEPT !.total = @ + LineTotal(found[1], it.quantity),
                             !.items = Append(@, LineSnapshot(it, found[1])),
                             !.i = @ + 1,
                             !.pc = IF fr.i = Len(fr.payload.items)
                                    THEN "insert" ELSE "loop"]

\* (mutant) a line that passes reserves its quantity of the product's stock
create_order_reserving(c, payload) ==
    /\ CanStart(c)
    /\ Room
    /\ LET fr == [Frame("create_order", payload) EXCEPT !.i = 1]
           nxt == IF payload.items = <<>>
                  THEN Done(fr, HTTPException(400, "Order must have items", <<>>))
                  ELSE OrderLoop(fr)
       IN  /\ req' = [req EXCEPT ![c] = nxt]
           /\ products' =
                 [k \in 1..Len(products) |->
                     IF nxt.pc # "done" /\ products[k]._id = nxt.lookups[1].id
                     THEN [products[k] EXCEPT !.stock = @ - payload.items[1].quantity]
                     ELSE products[k]]
    /\ UNCHANGED <<vendors, orders, seq>>

\* (mutant) the empty list is not rejected: the loop runs over no line
create_order_unguarded(c, payload) ==
    /\ CanStart(c)
    /\ Room
    /\ LET fr == [Frame("create_order", payload) EXCEPT !.i = 1]
       IN  req' = [req EXCEPT ![c] =
                      IF payload.items = <<>>
                      THEN [fr EXCEPT !.pc = "insert"]
                      ELSE OrderLoop(fr)]
    /\ UNCHANGED store

\* POST /orders, up to the first store call that lets it continue
create_order(c, payload) ==
    /\ CanStart(c)
    /\ Room
    /\ LET fr == [Frame("create_order", payload) EXCEPT !.i = 1]
       IN  req' = [req EXCEPT ![c] =
                      IF payload.items = <<>>
                      THEN Done(fr, HTTPException(400, "Order must have items", <<>>))
                      ELSE OrderLoop(fr)]
    /\ UNCHANGED store

\* POST /orders, the next line
create_order_line(c) ==
    /\ NoneDone
    /\ req[c].pc = "loop"
    /\ req' = [req EXCEPT ![c] = OrderLoop(req[c])]
    /\ UNCHANGED store

\* order_doc
OrderDocument(fr) ==
    [buyer_email |-> fr.payload.buyer_email, items |-> fr.items,
     total |-> Round2(fr.total), status |-> "pending"]

\* (mutant) the insert is refused when an order was persisted since the
\* request's first stock check
create_order_insert_rechecking(c) ==
    /\ NoneDone
    /\ req[c].pc = "insert"
    /\ IF \E k \in 1..Len(orders) :
             req[c].lookups # <<>> /\ orders[k].created_at > req[c].lookups[1].at
       THEN /\ req' = [req EXCEPT ![c] =
                          Done(req[c], HTTPException(400, "Insufficient stock for", <<>>))]
            /\ UNCHANGED store
       ELSE /\ orders' = Append(orders, NewDocument(OrderDocument(req[c])))
            /\ seq' = seq + 1
            /\ req' = [req EXCEPT ![c] =
                          Done([req[c] EXCEPT !.writes = @ + 1],
                               Ok(<<[id |-> NewDocumentId,
                                     total |-> Round2(req[c].total),
                                     status |-> "pending"]>>))]
            /\ UNCHANGED <<vendors, products>>

\* (mutant) the insert takes the ordered quantities off the products' stock
create_order_insert_decrementing(c) ==
    /\ NoneDone
    /\ req[c].pc = "insert"
    /\ orders' = Append(orders, NewDocument(OrderDocument(req[c])))
    /\ seq' = seq + 1
    /\ products' =
          [k \in 1..Len(products) |->
              LET hits == {j \in 1..Len(req[c].lookups) :
                              req[c].lookups[j].id = products[k]._id}
              IN  IF hits = {} THEN products[k]
                  ELSE [products[k] EXCEPT !.stock =
                           @ - req[c].items[CHOOSE j \in hits : TRUE].quantity]]
    /\ req' = [req EXCEPT ![c] =
                  Done([req[c] EXCEPT !.writes = @ + 1],
                       Ok(<<[id |-> NewDocumentId, total |-> Round2(req[c].total),
                             status |-> "pending"]>>))]
    /\ UNCHANGED vendors

\* POST /orders, create_document("order", order_doc) and the return
create_order_insert(c) ==
    /\ NoneDone
    /\ req[c].pc = "insert"
    /\ orders' = Append(orders, NewDocument(OrderDocument(req[c])))
    /\ seq' = seq + 1
    /\ req' = [req EXCEPT ![c] =
                  Done([req[c] EXCEPT !.writes = @ + 1],
                       Ok(<<[id |-> NewDocumentId, total |-> Round2(req[c].total),
                             status |-> "pending"]>>))]
    /\ UNCHANGED <<vendors, products>>

\* query = {"buyer_email": buyer_email} if buyer_email else {}
OrderMatches(buyer_email, o) ==
    GivenStr(buyer_email) => o.buyer_email = buyer_email[1]

\* (mutant) the limit is applied before the sort
OrdersListedLimitFirst(buyer_email) ==
    WithIds(SortByCreatedDesc(Limit(
               SelectSeq(orders, LAMBDA o : OrderMatches(buyer_email, o)),
               OrderListLimit)))

\* list(db["order"].find(query).sort("created_at", -1).limit(50)), ids renamed
OrdersListed(buyer_email) ==
    WithIds(Limit(SortByCreatedDesc(
                     SelectSeq(orders, LAMBDA o : OrderMatches(buyer_email, o))),
                  OrderListLimit))

\* GET /orders
list_orders(c, buyer_email) ==
    /\ CanStart(c)
    /\ req' = [req EXCEPT ![c] =
                  Done([Frame("list_orders", [buyer_email |-> buyer_email])
                           EXCEPT !.reads = 1],
                       Ok(OrdersListed(buyer_email)))]
    /\ UNCHANGED store

\* the response reaches the client; the client may send its next request
Return(c) ==
    /\ req[c].pc = "done"
    /\ req' = [req EXCEPT ![c] = Idle]
    /\ UNCHANGED store

-----------------------------------------------------------------------------
(* The service: an empty store, and clients that send requests. *)

Init ==
    /\ vendors = <<>>
    /\ products = <<>>
    /\ orders = <<>>
    /\ seq = 0
    /\ req = [c \in Clients |-> Idle]

Next ==
    \E c \in Clients :
        \/ \E payload \in VendorInputs : create_vendor(c, payload)
        \/ list_vendors(c)
        \/ \E payload \in ProductInputs : create_product(c, payload)
        \/ \E query \in ProductQueries : list_products(c, query)
        \/ \E product_id \in ProductIdInputs : get_product(c, product_id)
        \/ \E payload \in OrderInputs(c) : create_order(c, payload)
        \/ create_order_line(c)
        \/ create_order_insert(c)
        \/ \E buyer_email \in EmailFilters : list_orders(c, buyer_email)
        \/ Return(c)

Spec == Init /\ [][Next]_vars

-----------------------------------------------------------------------------
(* Listings of a large order collection.  The store holds one vendor, one *)
(* product and n orders of one unit of it, as n successful create-order   *)
(* requests leave it: the first k by one buyer, the others by another.    *)

ListVendor == [name |-> "Acme", email |-> "acme@x", _id |-> IdBase + 1, created_at |-> 1]

ListProduct ==
    [vendor_id |-> NthId(1), title |-> <<"T","e","e">>, price |-> 1, stock |-> 1,
     category |-> <<"c">>, _id |-> IdBase + 2, created_at |-> 2]

ListOrder(j, email) ==
    [buyer_email |-> email, items |-> <<LineSnapshot(Good, ListProduct)>>,
     total |-> Round2(LineTotal(ListProduct, 1)), status |-> "pending",
     _id |-> IdBase + 2 + j, created_at |-> 2 + j]

InitList ==
    \E n \in 0..MaxListOrders : \E k \in 0..n :
    \E e \in {<<"a@x", "b@x">>, <<"b@x", "a@x">>} :
        /\ vendors = <<ListVendor>>
        /\ products = <<ListProduct>>
        /\ orders = [j \in 1..n |-> ListOrder(j, IF j <= k THEN e[1] ELSE e[2])]
        /\ seq = 2 + n
        /\ req = [c \in Clients |-> Idle]

NextList ==
    \E c \in {"c1"} :
        \/ \E buyer_email \in EmailFilters : list_orders(c, buyer_email)
        \/ Return(c)

SpecList == InitList /\ [][NextList]_vars

-----------------------------------------------------------------------------
(* Claims. *)

\* an identifier string bson accepts, stated on the characters themselves
HexChars == {"0","1","2","3","4","5","6","7","8","9",
             "a","b","c","d","e","f","A","B","C","D","E","F"}
WellFormed(s) == Len(s) = 24 /\ \A k \in 1..Len(s) : s[k] \in HexChars

\* the product of collection prods an identifier string names, as a set of
\* at most one position
ProductNamedIn(prods, s) ==
    {k \in 1..Len(prods) : WellFormed(s) /\ prods[k]._id = HexNumber(s)}
ProductNamed(s) == ProductNamedIn(products, s)

Unparsable(it) == ~WellFormed(it.product_id)
NotFoundIn(prods, it) ==
    WellFormed(it.product_id) /\ ProductNamedIn(prods, it.product_id) = {}
InsufficientIn(prods, it) ==
    \E k \in ProductNamedIn(prods, it.product_id) : prods[k].stock < it.quantity
LineFailsIn(prods, it) ==
    Unparsable(it) \/ NotFoundIn(prods, it) \/ InsufficientIn(prods, it)
NotFound(it) == NotFoundIn(products, it)
Insufficient(it) == InsufficientIn(products, it)
LineFails(it) == LineFailsIn(products, it)

Ordering(c) == req[c].pc = "done" /\ req[c].op = "create_order"
Failed(c) == req[c].resp.status \in {400, 404}
InvalidId(c) == req[c].resp.status = 400 /\ req[c].resp.msg = "Invalid ID format"

\* client c takes a step of a create-order request
OrderStep(c) ==
    /\ req'[c].op = "create_order"
    /\ (req'[c].pc # req[c].pc \/ req'[c].i # req[c].i)

IsPrefix(s, t) == Len(s) <= Len(t) /\ SubSeq(t, 1, Len(s)) = s

RECURSIVE SumLines(_)
SumLines(lines) ==
    IF lines = <<>> THEN 0
    ELSE lines[1].price * lines[1].quantity + SumLines(Tail(lines))

\* the positions of the stored orders a buyer_email filter selects
Selected(email) == {k \in 1..Len(orders) : orders[k].buyer_email = email}

Listing(c) == req[c].pc = "done" /\ req[c].op = "list_orders"

\* the listing is the newest orders among those at positions sel, newest first
NewestOf(list, sel) ==
    LET shown == {k \in sel : \E j \in 1..Len(list) :
                                  list[j].created_at = orders[k].created_at}
    IN  /\ Len(list) = (IF Cardinality(sel) < OrderListLimit
                        THEN Cardinality(sel) ELSE OrderListLimit)
        /\ \A j \in 1..Len(list) :
              \E k \in sel : /\ list[j].created_at = orders[k].created_at
                             /\ list[j] = WithId(orders[k])
        /\ \A j \in 1..(Len(list) - 1) : list[j].created_at > list[j + 1].created_at
        /\ \A k \in sel \ shown :
              \A j \in 1..Len(list) : orders[k].created_at < list[j].created_at

\* C9 (as amended): a listing with a non-empty buyer_email filter holds only
\* orders of exactly that buyer_email, newest first, at most 50 of them, and
\* they are the most recently created ones of that buyer
C9_FilteredListing ==
    \A c \in Clients :
        (Listing(c) /\ GivenStr(req[c].payload.buyer_email)) =>
            LET email == req[c].payload.buyer_email[1]
                list == req[c].resp.body
            IN  /\ \A j \in 1..Len(list) : list[j].buyer_email = email
                /\ Len(list) <= OrderListLimit
                /\ NewestOf(list, Selected(email))

\* C9 witness: more than 50 orders match the filter and 50 are returned
C9_Witness ==
    \E c \in Clients :
        /\ Listing(c)
        /\ GivenStr(req[c].payload.buyer_email)
        /\ Cardinality(Selected(req[c].payload.buyer_email[1])) > OrderListLimit
        /\ Len(req[c].resp.body) = OrderListLimit
        /\ Len(orders) > Cardinality(Selected(req[c].payload.buyer_email[1]))

\* C9 (as stated): a listing with any buyer_email filter, the empty string
\* included, holds only orders of exactly that buyer_email
C9_AnyFilterExact ==
    \A c \in Clients :
        (Listing(c) /\ req[c].payload.buyer_email # <<>>) =>
            \A j \in 1..Len(req[c].resp.body) :
                req[c].resp.body[j].buyer_email = req[c].payload.buyer_email[1]

\* C1: every step of a create-order request but its successful end leaves
\* the three collections as they were, and a request with a failing line
\* (unparsable id, product not found, stock < quantity), at any position, ends
\* in an error having written nothing
C1_AllOrNothing ==
    [][\A c \in Clients :
          OrderStep(c) =>
             /\ (req'[c].pc = "done" /\ req'[c].resp.status = 200)
                   \/ (vendors' = vendors /\ products' = products /\ orders' = orders
                       /\ req'[c].writes = 0)
             /\ (req'[c].pc = "done"
                 /\ \E k \in 1..Len(req'[c].payload.items) :
                       LineFailsIn(products', req'[c].payload.items[k]))
                   => (req'[c].resp.status \in {400, 404} /\ req'[c].writes = 0)
       ]_vars

\* C1 witness: a two-line request whose first line passed and whose second
\* line failed has ended in an error
C1_Witness ==
    \E c \in Clients :
        /\ Ordering(c) /\ Failed(c)
        /\ Len(req[c].payload.items) = 2
        /\ ~LineFails(req[c].payload.items[1])
        /\ LineFails(req[c].payload.items[2])
        /\ Len(req[c].items) = 1
        /\ orders = <<>>

\* C2: a create-order request whose lines all passed the stock check persists
\* its order when it reaches its insert, whatever was persisted since the
\* check: nothing between check and insert stops a second order
C2_PassedCheckPersists ==
    [][\A c \in Clients :
          (req[c].pc = "insert" /\ req'[c].pc # "insert") =>
             /\ req'[c].pc = "done" /\ req'[c].resp.status = 200
             /\ Len(orders') = Len(orders) + 1
             /\ orders'[Len(orders')].items = req[c].items
       ]_vars

\* C2 witness: an order persisted between this request's stock check and its
\* insert; both order the same product, each quantity is within the stock,
\* and together they exceed it
C2_Oversold ==
    \E c \in Clients : \E k \in 1..(Len(orders) - 1) :
        /\ Ordering(c) /\ req[c].resp.status = 200
        /\ orders[k].created_at > req[c].lookups[1].at
        /\ \E p \in ProductNamed(orders[k].items[1].product_id) :
              /\ p \in ProductNamed(orders[Len(orders)].items[1].product_id)
              /\ orders[k].items[1].quantity <= products[p].stock
              /\ orders[Len(orders)].items[1].quantity <= products[p].stock
              /\ orders[k].items[1].quantity + orders[Len(orders)].items[1].quantity
                    > products[p].stock

\* C3: every document once persisted stays, with the same fields: each
\* collection only grows at its end (so a product keeps its stock)
C3_AppendOnly ==
    [][/\ IsPrefix(vendors, vendors')
       /\ IsPrefix(products, products')
       /\ IsPrefix(orders, orders')]_vars

\* C3 witness: after a persisted order of a product and a failed order of it,
\* the product has the stock it was created with
C3_Witness ==
    \E c \in Clients :
        /\ Ordering(c) /\ Failed(c) /\ req[c].lookups # <<>>
        /\ \E k \in 1..Len(orders) : \E p \in ProductNamed(orders[k].items[1].product_id) :
              /\ products[p]._id = req[c].lookups[1].id
              /\ products[p].stock \in {1, 2}

\* the vendors an identifier string resolves to, in collection vs
VendorNamedIn(vs, s) ==
    {k \in 1..Len(vs) : WellFormed(s) /\ vs[k]._id = HexNumber(s)}

\* C4: a create-product request whose vendor_id is well-formed and resolves to
\* no vendor ends with 404 'Vendor not found' and leaves the store as it was;
\* and after every step each persisted product's vendor_id resolves to a
\* persisted vendor
C4_VendorMustExist ==
    [][/\ \A c \in Clients :
             (/\ req[c].pc = "idle" /\ req'[c].op = "create_product"
              /\ WellFormed(req'[c].payload.vendor_id)
              /\ VendorNamedIn(vendors, req'[c].payload.vendor_id) = {})
             => /\ req'[c].pc = "done"
                /\ req'[c].resp.status = 404
                /\ req'[c].resp.msg = "Vendor not found"
                /\ vendors' = vendors /\ products' = products /\ orders' = orders
                /\ seq' = seq
       /\ \A k \in 1..Len(products') :
             VendorNamedIn(vendors', products'[k].vendor_id) # {}
      ]_vars

\* C4 witness: a create-product request naming a well-formed identifier that
\* is no vendor's has ended, while a product of an existing vendor is stored
C4_Witness ==
    \E c \in Clients :
        /\ req[c].pc = "done" /\ req[c].op = "create_product"
        /\ WellFormed(req[c].payload.vendor_id)
        /\ VendorNamedIn(vendors, req[c].payload.vendor_id) = {}
        /\ req[c].resp.status = 404
        /\ products # <<>>

\* the lines before line k of request c were looked up, in input order, and
\* no other line was
LookedUpBefore(c, k) ==
    /\ Len(req[c].lookups) = k - 1
    /\ \A j \in 1..(k - 1) :
          /\ req[c].lookups[j].line = j
          /\ req[c].lookups[j].id = HexNumber(req[c].payload.items[j].product_id)
    /\ req[c].reads = k - 1

\* C5 (as amended): in create product and get product an unparsable
\* identifier yields 400 'Invalid ID format' with no store access at all; in
\* create order an unparsable product_id whose line is reached (every earlier
\* line passed) yields 400 'Invalid ID format', the request having made
\* one product lookup per earlier line, none for that line, and no write
C5_InvalidIdBeforeItsAccess ==
    \A c \in Clients :
        req[c].pc = "done" =>
            /\ (req[c].op = "create_product" /\ ~WellFormed(req[c].payload.vendor_id))
                  => (InvalidId(c) /\ req[c].reads = 0 /\ req[c].writes = 0)
            /\ (req[c].op = "get_product" /\ ~WellFormed(req[c].payload.product_id))
                  => (InvalidId(c) /\ req[c].reads = 0 /\ req[c].writes = 0)
            /\ req[c].op = "create_order" =>
                  \A k \in 1..Len(req[c].payload.items) :
                      (/\ Unparsable(req[c].payload.items[k])
                       /\ \A j \in 1..(k - 1) : ~LineFails(req[c].payload.items[j]))
                      => (InvalidId(c) /\ LookedUpBefore(c, k) /\ req[c].writes = 0)

\* C5 witness: a create-order request ended on an unparsable second line
\* after looking up its first line
C5_Witness ==
    \E c \in Clients :
        /\ Ordering(c) /\ InvalidId(c)
        /\ Len(req[c].payload.items) = 2
        /\ Unparsable(req[c].payload.items[2])
        /\ req[c].reads = 1

\* C5 (as stated): a request that comes to an unparsable identifier ends with
\* 400 'Invalid ID format' having attempted no store access, neither read nor
\* write
C5_InvalidIdBeforeAnyAccess ==
    \A c \in Clients :
        req[c].pc = "done" =>
            /\ (req[c].op = "create_product" /\ ~WellFormed(req[c].payload.vendor_id))
                  => (InvalidId(c) /\ req[c].reads = 0 /\ req[c].writes = 0)
            /\ (req[c].op = "get_product" /\ ~WellFormed(req[c].payload.product_id))
                  => (InvalidId(c) /\ req[c].reads = 0 /\ req[c].writes = 0)
            /\ req[c].op = "create_order" =>
                  \A k \in 1..Len(req[c].payload.items) :
                      (/\ Unparsable(req[c].payload.items[k])
                       /\ \A j \in 1..(k - 1) : ~LineFails(req[c].payload.items[j]))
                      => (InvalidId(c) /\ req[c].reads = 0 /\ req[c].writes = 0)

\* C6 (as stated): every persisted order has a non-negative total and only
\* lines of positive quantity
C6_OrdersWellFormed ==
    \A k \in 1..Len(orders) :
        /\ orders[k].total >= 0
        /\ \A j \in 1..Len(orders[k].items) : orders[k].items[j].quantity > 0

\* C7: a create-order request that has just ended successfully wrote once;
\* the order it persisted (the newest document) has the returned id, status
\* 'pending', one line per requested item in input order with the requested
\* product_id and quantity and the stored product's price, title and
\* vendor_id, and as total the sum of price * quantity rounded to cents; the
\* response carries that total and status
C7_OrderAsRequested ==
    \A c \in Clients :
        (Ordering(c) /\ req[c].resp.status = 200) =>
            LET o == orders[Len(orders)]
                asked == req[c].payload.items
                r == req[c].resp.body[1]
            IN  /\ req[c].writes = 1
                /\ o.created_at = seq
                /\ \A k \in 1..(Len(orders) - 1) : orders[k]._id # o._id
                /\ WellFormed(r.id) /\ HexNumber(r.id) = o._id
                /\ o.buyer_email = req[c].payload.buyer_email
                /\ o.status = "pending"
                /\ Len(o.items) = Len(asked)
                /\ \A k \in 1..Len(asked) :
                      /\ o.items[k].product_id = asked[k].product_id
                      /\ o.items[k].quantity = asked[k].quantity
                      /\ \E p \in ProductNamed(asked[k].product_id) :
                            /\ o.items[k].price = products[p].price
                            /\ o.items[k].title = products[p].title
                            /\ o.items[k].vendor_id = products[p].vendor_id
                /\ o.total = RoundHalfEven(100 * SumLines(o.items), 8)
                /\ r.total = o.total
                /\ r.status = o.status

\* C7 witness: a successful order of two lines of different products whose
\* total is not a whole number of cents before rounding
C7_Witness ==
    \E c \in Clients :
        /\ Ordering(c) /\ req[c].resp.status = 200
        /\ Len(req[c].items) = 2
        /\ req[c].items[1].price # req[c].items[2].price
        /\ (100 * req[c].total) % 8 # 0

\* C8: a create-order request with an empty items list ends with 400 'Order
\* must have items', having made no product lookup nor any other store
\* access, and having persisted nothing
C8_EmptyOrderRejected ==
    \A c \in Clients :
        (Ordering(c) /\ req[c].payload.items = <<>>) =>
            /\ req[c].resp.status = 400
            /\ req[c].resp.msg = "Order must have items"
            /\ req[c].lookups = <<>>
            /\ req[c].reads = 0
            /\ req[c].writes = 0
            /\ \A k \in 1..Len(orders) : orders[k].items # <<>>

\* C8 witness: a create-order request with no items has ended while the
\* store holds a product
C8_Witness ==
    \E c \in Clients :
        Ordering(c) /\ req[c].payload.items = <<>> /\ products # <<>>

\* the error the failure of line it gives, by the first check that fails
ErrorOf(r, it) ==
    IF Unparsable(it)
    THEN r.status = 400 /\ r.msg = "Invalid ID format"
    ELSE IF NotFound(it)
    THEN r.status = 404 /\ r.msg = "Product not found" /\ r.arg = it.product_id
    ELSE /\ r.status = 400 /\ r.msg = "Insufficient stock for"
         /\ \E p \in ProductNamed(it.product_id) : r.arg = products[p].title

\* C10: a failed create-order request with items returns the error of its
\* first failing line in input order (unparsable id before product not found
\* before insufficient stock), and has looked up, in input order, exactly
\* the lines up to that one (not that one if its id is unparsable)
C10_FirstFailingLine ==
    \A c \in Clients :
        (Ordering(c) /\ Failed(c) /\ req[c].payload.items # <<>>) =>
            LET asked == req[c].payload.items
                failing == {k \in 1..Len(asked) : LineFails(asked[k])}
            IN  /\ failing # {}
                /\ LET first == CHOOSE k \in failing : \A j \in failing : k <= j
                   IN  /\ ErrorOf(req[c].resp, asked[first])
                       /\ LookedUpBefore(c, IF Unparsable(asked[first])
                                            THEN first ELSE first + 1)
                       /\ \A j \in 1..Len(req[c].lookups) :
                             req[c].lookups[j].found
                                = ~(j = first /\ NotFound(asked[first]))

\* C10 witness: a request whose two lines both fail, differently, has ended
C10_Witness ==
    \E c \in Clients :
        /\ Ordering(c) /\ Failed(c)
        /\ Len(req[c].payload.items) = 2
        /\ Insufficient(req[c].payload.items[1])
        /\ Unparsable(req[c].payload.items[2])
        /\ req[c].resp.msg = "Insufficient stock for"

=============================================================================
